---- MODULE Spec2Model ----
(***************************************************************************)
(* The glucose minimal model of chap18.ipynb: make_system, update_func,    *)
(* slope_func and the fixed-step driver run_simulation.                    *)
(*                                                                         *)
(* Numbers.  The notebook computes with Python floats.  Here a number is   *)
(* an exact rational [n, d] in lowest terms with d > 0, so that 0.03,      *)
(* 0.02 and 1e-05 are 3/100, 1/50 and 1/100000; rounding is not modelled.  *)
(* Times (the index labels of the data, t_0, t_end, dt) are integers, as   *)
(* they are in the notebook's data.                                        *)
(***************************************************************************)
EXTENDS Integers, Sequences, FiniteSets

VARIABLES
    system,      \* the System object handed to run_simulation
    frame,       \* run_simulation's local TimeFrame: rows [t, state], in order
    ts,          \* the part of linrange(t_0, t_end, dt) the loop has not visited
    pc,          \* "idle" | "loop" | "done" | "error"
    err,         \* the exception that ended the run, or "none"
    calls,       \* times at which this run called update_func, in order
    results,     \* the TimeFrame returned by the last completed run, <<>> if none
    prev,        \* the TimeFrame returned by the run before that, <<>> if none
    runs,        \* number of calls of run_simulation made so far
    arg,         \* [state, t]: arguments of the stand-alone test calls
    ret_update,  \* result of update_func(arg.state, arg.t, system), or "none"
    ret_slope    \* result of slope_func(arg.state, arg.t, system), or "none"

vars == <<system, frame, ts, pc, err, calls, results, prev, runs,
          arg, ret_update, ret_slope>>

-----------------------------------------------------------------------------
(* Bounds of the model *)

\* run_simulation is called at most this many times on the same system
MaxRuns == 2
\* a System override may put t_end up to this far past the last observation
MaxOver == 2
\* an overriding dt ranges over 1..MaxDt
MaxDt == 2

-----------------------------------------------------------------------------
(* Exact arithmetic standing for the notebook's float arithmetic *)

Abs(x) == IF x < 0 THEN -x ELSE x

RECURSIVE GCD(_, _)
GCD(a, b) == IF b = 0 THEN a ELSE GCD(b, a % b)

\* the rational n/d (d # 0) in lowest terms, sign carried by the numerator
Rat(n, d) ==
    LET g == GCD(Abs(n), Abs(d))
        s == IF d < 0 THEN -1 ELSE 1
    IN  [n |-> s * (n \div g), d |-> s * (d \div g)]

R(i) == [n |-> i, d |-> 1]

RNeg(p) == [n |-> -p.n, d |-> p.d]

RAdd(p, q) ==
    LET g == GCD(p.d, q.d)
    IN  Rat(p.n * (q.d \div g) + q.n * (p.d \div g), (p.d \div g) * q.d)

RSub(p, q) == RAdd(p, RNeg(q))

RMul(p, q) ==
    LET g1 == GCD(Abs(p.n), q.d)
        g2 == GCD(Abs(q.n), p.d)
    IN  Rat((p.n \div g1) * (q.n \div g2), (p.d \div g2) * (q.d \div g1))

-----------------------------------------------------------------------------
(* The objects of the notebook *)

Params(G0, k1, k2, k3) == [G0 |-> G0, k1 |-> k1, k2 |-> k2, k3 |-> k3]

State(G, X) == [G |-> G, X |-> X]

\* params = Params(G0 = 290, k1 = 0.03, k2 = 0.02, k3 = 1e-05)
params == Params(R(290), Rat(3, 100), Rat(2, 100), Rat(1, 100000))

\* the decoupled system: every rate constant 0
params_zero == Params(R(290), R(0), R(0), R(0))

\* a parameter set with large rates and small denominators
params_fast == Params(R(6), Rat(1, 2), Rat(1, 2), Rat(1, 4))

Row(time, glucose, insulin) ==
    [time |-> time, glucose |-> glucose, insulin |-> insulin]

\* data tables: rows of (time, glucose, insulin), the index strictly increasing.
\* data_flat: the first index labels and glucose values of glucose_insulin.csv,
\* the insulin held at its baseline throughout.
data_flat == << Row(0, 92, 11), Row(2, 350, 11), Row(4, 287, 11), Row(6, 251, 11) >>

\* uneven index, insulin leaving and rejoining its baseline; the last label
\* is not a multiple of the notebook's dt away from the first
data_pulse == << Row(0, 2, 1), Row(2, 5, 3), Row(5, 4, 1) >>

\* insulin at baseline and a baseline glucose above the G0 of params
data_high == << Row(0, 300, 11), Row(2, 300, 11), Row(4, 300, 11) >>

get_first_label(data) == data[1].time

get_last_label(data) == data[Len(data)].time

\* results of calls that may raise: ok, or the name of the exception
Ok(v) == [ok |-> TRUE, err |-> "none", val |-> v]

Raise(e, dummy) == [ok |-> FALSE, err |-> e, val |-> dummy]

\* I = interpolate(data.insulin), evaluated at t: linear between the two
\* neighbouring observations, defined on [first label, last label] only
interpolate(data, t) ==
    IF t < get_first_label(data) \/ t > get_last_label(data)
    THEN Raise("DomainError", R(0))
    ELSE LET i  == CHOOSE j \in 1..(Len(data) - 1) :
                       data[j].time <= t /\ t <= data[j + 1].time
             x0 == data[i].time
             x1 == data[i + 1].time
             y0 == data[i].insulin
             y1 == data[i + 1].insulin
         IN  Ok(RAdd(R(y0), RMul(R(y1 - y0), Rat(t - x0, x1 - x0))))

make_system(p, data) ==
    [ G0 |-> p.G0, k1 |-> p.k1, k2 |-> p.k2, k3 |-> p.k3,
      init  |-> State(p.G0, R(0)),
      Gb    |-> R(data[1].glucose),
      Ib    |-> R(data[1].insulin),
      I     |-> data,
      t_0   |-> get_first_label(data),
      t_end |-> get_last_label(data),
      dt    |-> 2 ]

\* System(system, t_end=..., dt=...): a copy with the two fields replaced
SystemWith(sys, t_end, dt) == [sys EXCEPT !.t_end = t_end, !.dt = dt]

-----------------------------------------------------------------------------
(* The model functions *)

ZeroState == State(R(0), R(0))

\* a variant of update_func that evaluates dGdt after X has been advanced
update_func_late_X(state, t, sys) ==
    LET G  == state.G
        X  == state.X
        It == interpolate(sys.I, t)
    IN  IF ~It.ok THEN Raise(It.err, ZeroState)
        ELSE LET dXdt == RSub(RMul(sys.k3, RSub(It.val, sys.Ib)), RMul(sys.k2, X))
                 Xn   == RAdd(X, RMul(dXdt, R(sys.dt)))
                 dGdt == RSub(RNeg(RMul(sys.k1, RSub(G, sys.Gb))), RMul(Xn, G))
             IN  Ok(State(RAdd(G, RMul(dGdt, R(sys.dt))), Xn))

\* a variant of update_func that drops the X*G term of dGdt
update_func_no_XG(state, t, sys) ==
    LET G  == state.G
        X  == state.X
        It == interpolate(sys.I, t)
    IN  IF ~It.ok THEN Raise(It.err, ZeroState)
        ELSE LET dGdt == RNeg(RMul(sys.k1, RSub(G, sys.Gb)))
                 dXdt == RSub(RMul(sys.k3, RSub(It.val, sys.Ib)), RMul(sys.k2, X))
             IN  Ok(State(RAdd(G, RMul(dGdt, R(sys.dt))),
                          RAdd(X, RMul(dXdt, R(sys.dt)))))

\* a variant of update_func with the sign of the k1 term flipped
update_func_plus_k1(state, t, sys) ==
    LET G  == state.G
        X  == state.X
        It == interpolate(sys.I, t)
    IN  IF ~It.ok THEN Raise(It.err, ZeroState)
        ELSE LET dGdt == RSub(RMul(sys.k1, RSub(G, sys.Gb)), RMul(X, G))
                 dXdt == RSub(RMul(sys.k3, RSub(It.val, sys.Ib)), RMul(sys.k2, X))
             IN  Ok(State(RAdd(G, RMul(dGdt, R(sys.dt))),
                          RAdd(X, RMul(dXdt, R(sys.dt)))))

\* a variant of update_func that reads I at the nearest observed time when t
\* is outside the observed range
update_func_clamped(state, t, sys) ==
    LET G  == state.G
        X  == state.X
        lo == get_first_label(sys.I)
        hi == get_last_label(sys.I)
        tc == IF t < lo THEN lo ELSE IF t > hi THEN hi ELSE t
        It == interpolate(sys.I, tc)
    IN  LET dGdt == RSub(RNeg(RMul(sys.k1, RSub(G, sys.Gb))), RMul(X, G))
            dXdt == RSub(RMul(sys.k3, RSub(It.val, sys.Ib)), RMul(sys.k2, X))
        IN  Ok(State(RAdd(G, RMul(dGdt, R(sys.dt))),
                     RAdd(X, RMul(dXdt, R(sys.dt)))))

\* update_func(state, t, system): one forward-difference step from the old
\* state; raises what I(t) raises
update_func(state, t, sys) ==
    LET G  == state.G
        X  == state.X
        It == interpolate(sys.I, t)
    IN  IF ~It.ok THEN Raise(It.err, ZeroState)
        ELSE LET dGdt == RSub(RNeg(RMul(sys.k1, RSub(G, sys.Gb))), RMul(X, G))
                 dXdt == RSub(RMul(sys.k3, RSub(It.val, sys.Ib)), RMul(sys.k2, X))
             IN  Ok(State(RAdd(G, RMul(dGdt, R(sys.dt))),
                          RAdd(X, RMul(dXdt, R(sys.dt)))))

ZeroSlope == <<R(0), R(0)>>

\* slope_func(state, t, system): the pair (dGdt, dXdt)
slope_func(state, t, sys) ==
    LET G  == state.G
        X  == state.X
        It == interpolate(sys.I, t)
    IN  IF ~It.ok THEN Raise(It.err, ZeroSlope)
        ELSE LET dGdt == RSub(RNeg(RMul(sys.k1, RSub(G, sys.Gb))), RMul(X, G))
                 dXdt == RSub(RMul(sys.k3, RSub(It.val, sys.Ib)), RMul(sys.k2, X))
             IN  Ok(<<dGdt, dXdt>>)

-----------------------------------------------------------------------------
(* The fixed-step driver *)

\* linrange(start, stop, step), step > 0: start, start+step, ... while < stop
linrange(start, stop, step) ==
    LET n == IF stop <= start THEN 0 ELSE (stop - start + step - 1) \div step
    IN  [i \in 1..n |-> start + (i - 1) * step]

\* TimeFrame rows: frame.row[t] as an rvalue and as an assignment target
HasRow(fr, t) == \E i \in 1..Len(fr) : fr[i].t = t

GetRow(fr, t) == fr[CHOOSE i \in 1..Len(fr) : fr[i].t = t].state

SetRow(fr, t, state) ==
    IF HasRow(fr, t)
    THEN [i \in 1..Len(fr) |-> IF fr[i].t = t THEN [t |-> t, state |-> state] ELSE fr[i]]
    ELSE Append(fr, [t |-> t, state |-> state])

\* a variant of the loop body that advances the row label by 1, not by dt
run_simulation_step_unit ==
    /\ pc = "loop"
    /\ ts # <<>>
    /\ LET t == Head(ts)
       IN  IF ~HasRow(frame, t)
           THEN /\ pc' = "error"
                /\ err' = "KeyError"
                /\ UNCHANGED <<frame, ts, calls>>
           ELSE LET r == update_func(GetRow(frame, t), t, system)
                IN  /\ calls' = Append(calls, t)
                    /\ IF r.ok
                       THEN /\ frame' = SetRow(frame, t + 1, r.val)
                            /\ ts' = Tail(ts)
                            /\ UNCHANGED <<pc, err>>
                       ELSE /\ pc' = "error"
                            /\ err' = r.err
                            /\ UNCHANGED <<frame, ts>>
    /\ UNCHANGED <<system, results, prev, runs, arg, ret_update, ret_slope>>

\* a variant of the loop body that stores the new state in the row it read
run_simulation_step_in_place ==
    /\ pc = "loop"
    /\ ts # <<>>
    /\ LET t == Head(ts)
       IN  IF ~HasRow(frame, t)
           THEN /\ pc' = "error"
                /\ err' = "KeyError"
                /\ UNCHANGED <<frame, ts, calls>>
           ELSE LET r == update_func(GetRow(frame, t), t, system)
                IN  /\ calls' = Append(calls, t)
                    /\ IF r.ok
                       THEN /\ frame' = SetRow(frame, t, r.val)
                            /\ ts' = Tail(ts)
                            /\ UNCHANGED <<pc, err>>
                       ELSE /\ pc' = "error"
                            /\ err' = r.err
                            /\ UNCHANGED <<frame, ts>>
    /\ UNCHANGED <<system, results, prev, runs, arg, ret_update, ret_slope>>

\* a variant of the loop body that overwrites the initial row with every
\* new state besides recording it
run_simulation_step_touch_first ==
    /\ pc = "loop"
    /\ ts # <<>>
    /\ LET t == Head(ts)
       IN  IF ~HasRow(frame, t)
           THEN /\ pc' = "error"
                /\ err' = "KeyError"
                /\ UNCHANGED <<frame, ts, calls>>
           ELSE LET r == update_func(GetRow(frame, t), t, system)
                IN  /\ calls' = Append(calls, t)
                    /\ IF r.ok
                       THEN /\ frame' = SetRow(SetRow(frame, t + system.dt, r.val),
                                               system.t_0, r.val)
                            /\ ts' = Tail(ts)
                            /\ UNCHANGED <<pc, err>>
                       ELSE /\ pc' = "error"
                            /\ err' = r.err
                            /\ UNCHANGED <<frame, ts>>
    /\ UNCHANGED <<system, results, prev, runs, arg, ret_update, ret_slope>>

\* a variant of the loop body that evaluates the update at the new time t+dt
run_simulation_step_ahead ==
    /\ pc = "loop"
    /\ ts # <<>>
    /\ LET t == Head(ts)
       IN  IF ~HasRow(frame, t)
           THEN /\ pc' = "error"
                /\ err' = "KeyError"
                /\ UNCHANGED <<frame, ts, calls>>
           ELSE LET r == update_func(GetRow(frame, t), t + system.dt, system)
                IN  /\ calls' = Append(calls, t + system.dt)
                    /\ IF r.ok
                       THEN /\ frame' = SetRow(frame, t + system.dt, r.val)
                            /\ ts' = Tail(ts)
                            /\ UNCHANGED <<pc, err>>
                       ELSE /\ pc' = "error"
                            /\ err' = r.err
                            /\ UNCHANGED <<frame, ts>>
    /\ UNCHANGED <<system, results, prev, runs, arg, ret_update, ret_slope>>

\* a variant of the entry that starts from the last state of the previous run
run_simulation_begin_carry ==
    /\ pc \in {"idle", "done"}
    /\ runs < MaxRuns
    /\ frame' = << [t |-> system.t_0,
                    state |-> IF results = <<>> THEN system.init
                              ELSE results[Len(results)].state] >>
    /\ ts' = linrange(system.t_0, system.t_end, system.dt)
    /\ pc' = "loop"
    /\ err' = "none"
    /\ calls' = <<>>
    /\ runs' = runs + 1
    /\ UNCHANGED <<system, results, prev, arg, ret_update, ret_slope>>

\* run_simulation(system, update_func), up to the loop: a fresh TimeFrame
\* whose row t_0 is system.init, and the times to visit
run_simulation_begin ==
    /\ pc \in {"idle", "done"}
    /\ runs < MaxRuns
    /\ frame' = << [t |-> system.t_0, state |-> system.init] >>
    /\ ts' = linrange(system.t_0, system.t_end, system.dt)
    /\ pc' = "loop"
    /\ err' = "none"
    /\ calls' = <<>>
    /\ runs' = runs + 1
    /\ UNCHANGED <<system, results, prev, arg, ret_update, ret_slope>>

\* one iteration: frame.row[t+dt] = update_func(frame.row[t], t, system).
\* A missing row t raises KeyError; an exception of update_func leaves the loop.
run_simulation_step ==
    /\ pc = "loop"
    /\ ts # <<>>
    /\ LET t == Head(ts)
       IN  IF ~HasRow(frame, t)
           THEN /\ pc' = "error"
                /\ err' = "KeyError"
                /\ UNCHANGED <<frame, ts, calls>>
           ELSE LET r == update_func(GetRow(frame, t), t, system)
                IN  /\ calls' = Append(calls, t)
                    /\ IF r.ok
                       THEN /\ frame' = SetRow(frame, t + system.dt, r.val)
                            /\ ts' = Tail(ts)
                            /\ UNCHANGED <<pc, err>>
                       ELSE /\ pc' = "error"
                            /\ err' = r.err
                            /\ UNCHANGED <<frame, ts>>
    /\ UNCHANGED <<system, results, prev, runs, arg, ret_update, ret_slope>>

\* return frame: the caller holds it as results, next to the one it had
run_simulation_return ==
    /\ pc = "loop"
    /\ ts = <<>>
    /\ pc' = "done"
    /\ prev' = results
    /\ results' = frame
    /\ UNCHANGED <<system, frame, ts, err, calls, runs, arg, ret_update, ret_slope>>

-----------------------------------------------------------------------------
(* Stand-alone calls of the two model functions *)

NotCalled(dummy) == [done |-> FALSE, r |-> Raise("none", dummy)]

test_update_func ==
    /\ pc = "test"
    /\ ~ret_update.done
    /\ ret_update' = [done |-> TRUE, r |-> update_func(arg.state, arg.t, system)]
    /\ UNCHANGED <<system, frame, ts, pc, err, calls, results, prev, runs,
                   arg, ret_slope>>

test_slope_func ==
    /\ pc = "test"
    /\ ~ret_slope.done
    /\ ret_slope' = [done |-> TRUE, r |-> slope_func(arg.state, arg.t, system)]
    /\ UNCHANGED <<system, frame, ts, pc, err, calls, results, prev, runs,
                   arg, ret_update>>

-----------------------------------------------------------------------------
(* Inputs and the specification *)

ParamsSet == {params, params_zero, params_fast}

DataSet == {data_flat, data_pulse, data_high}

\* step sizes tried with a parameter set: the notebook's 2, the exercise's 1
\* and the others up to MaxDt; params itself is not stepped with dt = 1, whose
\* denominators 100^n leave the 32-bit range within the horizon
DtSet(p) == {dt \in 1..MaxDt : dt = 2 \/ p # params}

TEndSet(data) == (get_first_label(data) - 1)..(get_last_label(data) + MaxOver)

TestStates ==
    {State(G, X) : G \in {R(0), R(92), R(290)}, X \in {R(0), Rat(1, 100), R(-1)}}

TestTimes(data) ==
    {get_first_label(data) - 1, get_first_label(data), get_first_label(data) + 1,
     get_last_label(data), get_last_label(data) + 1}

InitCommon ==
    /\ frame = <<>>
    /\ ts = <<>>
    /\ err = "none"
    /\ calls = <<>>
    /\ results = <<>>
    /\ prev = <<>>
    /\ runs = 0
    /\ ret_update = NotCalled(ZeroState)
    /\ ret_slope = NotCalled(ZeroSlope)

\* a system as make_system builds it, or a copy with t_end and dt replaced,
\* about to be run; arg is the notebook's own trial call
InitRun ==
    /\ \E p \in ParamsSet, data \in DataSet :
         \E dt \in DtSet(p), te \in TEndSet(data) :
             system = SystemWith(make_system(p, data), te, dt)
    /\ arg = [state |-> system.init, t |-> system.t_0]
    /\ pc = "idle"
    /\ InitCommon

\* a system and arbitrary arguments for the two model functions
InitTest ==
    /\ \E p \in ParamsSet, data \in DataSet :
         \E dt \in DtSet(p) :
             /\ system = SystemWith(make_system(p, data), get_last_label(data), dt)
             /\ \E st \in TestStates, t \in TestTimes(data) :
                    arg = [state |-> st, t |-> t]
    /\ pc = "test"
    /\ InitCommon

Init == InitRun \/ InitTest

Next ==
    \/ run_simulation_begin
    \/ run_simulation_step
    \/ run_simulation_return
    \/ test_update_func
    \/ test_slope_func

Spec == Init /\ [][Next]_vars

-----------------------------------------------------------------------------
(* Properties *)

Running == pc \in {"loop", "done", "error"}

\* p <= q
RLeq(p, q) == RSub(p, q).n <= 0

LastRow(fr) == fr[Len(fr)]

OutOfRange(t) == t < get_first_label(system.I) \/ t > get_last_label(system.I)

\* t_0 and t_end are the first and last observation times, as make_system sets them
BuiltByMakeSystem ==
    /\ system.t_0 = get_first_label(system.I)
    /\ system.t_end = get_last_label(system.I)

ZeroRates == system.k1 = R(0) /\ system.k2 = R(0) /\ system.k3 = R(0)

\* the forcing signal was at its baseline at every time the run queried it
BaselineForcing ==
    \A i \in 1..Len(calls) : interpolate(system.I, calls[i]) = Ok(system.Ib)

BookRun ==
    /\ Running
    /\ system.G0 = R(290)
    /\ system.k1 = Rat(3, 100)
    /\ system.k2 = Rat(2, 100)
    /\ system.k3 = Rat(1, 100000)
    /\ system.dt = 2
    /\ system.init.X = R(0)
    /\ BaselineForcing

\* C1: with dt > 0 and t_end > t_0 the recorded times are t_0, t_0+dt,
\* t_0+2*dt, ...: the first is t_0, consecutive ones differ by exactly dt, and
\* the returned sequence reaches t_end without passing it by dt or more.
C1_TimesStepByDt ==
    (Running /\ system.dt > 0 /\ system.t_end > system.t_0) =>
        /\ Len(frame) >= 1
        /\ frame[1].t = system.t_0
        /\ \A i \in 1..(Len(frame) - 1) : frame[i + 1].t = frame[i].t + system.dt
        /\ pc = "done" =>
              /\ LastRow(frame).t >= system.t_end
              /\ LastRow(frame).t < system.t_end + system.dt
              /\ results = frame

C1_Witness ==
    /\ pc = "done"
    /\ system.dt > 0
    /\ (system.t_end - system.t_0) % system.dt # 0
    /\ Len(frame) >= 4
    /\ LastRow(frame).t > system.t_end

\* C2: the first entry of the trajectory is at t_0 and equals system.init,
\* which is (G0, 0); no loop iteration changes it.
C2_FirstEntryIsInit ==
    Running =>
        /\ Len(frame) >= 1
        /\ frame[1] = [t |-> system.t_0, state |-> system.init]
        /\ system.init = State(system.G0, R(0))
        /\ pc = "done" => results[1] = [t |-> system.t_0, state |-> system.init]

C2_Witness ==
    /\ pc = "done"
    /\ Len(results) >= 3
    /\ results[2].state # system.init
    /\ results[3].state # results[2].state

\* C3: update_func returns G + (-k1*(G - Gb) - X*G)*dt and
\* X + (k3*(I(t) - Ib) - k2*X)*dt, both slopes taken at the old state and at t,
\* which is state + dt * slope_func(state, t); the two raise together.
C3_UpdateIsEulerStepOfSlope ==
    LET G  == arg.state.G
        X  == arg.state.X
        dt == R(system.dt)
        It == interpolate(system.I, arg.t)
    IN  /\ (ret_update.done /\ ret_update.r.ok) =>
              /\ It.ok
              /\ ret_update.r.val.G =
                    RSub(RSub(G, RMul(RMul(system.k1, dt), RSub(G, system.Gb))),
                         RMul(dt, RMul(X, G)))
              /\ ret_update.r.val.X =
                    RSub(RAdd(X, RMul(RMul(system.k3, dt), RSub(It.val, system.Ib))),
                         RMul(RMul(system.k2, dt), X))
        /\ (ret_update.done /\ ret_slope.done) =>
              /\ ret_update.r.ok = ret_slope.r.ok
              /\ ret_update.r.ok =>
                    ret_update.r.val =
                        State(RAdd(G, RMul(dt, ret_slope.r.val[1])),
                              RAdd(X, RMul(dt, ret_slope.r.val[2])))

C3_Witness ==
    /\ ret_update.done /\ ret_slope.done
    /\ ret_update.r.ok
    /\ arg.state.X # R(0)
    /\ system.k3 # R(0)
    /\ interpolate(system.I, arg.t).val # system.Ib
    /\ ret_update.r.val.G # arg.state.G
    /\ ret_update.r.val.X # arg.state.X

\* C4: a second run of run_simulation on the same system reproduces the first:
\* row by row while it runs, and as a whole when it returns.
C4_RerunIdentical ==
    /\ (pc = "loop" /\ runs >= 2) =>
          /\ Len(frame) <= Len(results)
          /\ \A i \in 1..Len(frame) : frame[i] = results[i]
    /\ (pc = "done" /\ runs >= 2) => results = prev

C4_Witness ==
    /\ pc = "done"
    /\ runs = 2
    /\ Len(results) >= 3
    /\ results = prev
    /\ LastRow(results).state # system.init

\* C5 as stated: with k1 = k2 = k3 = 0 update_func returns its input for every
\* state, slope_func returns zero, and every trajectory entry is the initial state.
C5_ZeroRatesConstantState ==
    ZeroRates =>
        /\ (ret_update.done /\ ret_update.r.ok) => ret_update.r.val = arg.state
        /\ (ret_slope.done /\ ret_slope.r.ok) => ret_slope.r.val = ZeroSlope
        /\ Running => \A i \in 1..Len(frame) : frame[i].state = system.init

\* C5 as amended: with k1 = k2 = k3 = 0, X is constant (dXdt = 0) whatever the
\* forcing, while dGdt = -X*G and G_next = G - X*G*dt; the state is returned
\* unchanged when X = 0, so every entry of a trajectory started at X = 0 is the
\* initial state.
C5_ZeroRatesConstantX ==
    LET G == arg.state.G
        X == arg.state.X
    IN  ZeroRates =>
        /\ (ret_update.done /\ ret_update.r.ok) =>
              /\ ret_update.r.val.X = X
              /\ ret_update.r.val.G = RSub(G, RMul(RMul(X, G), R(system.dt)))
              /\ X = R(0) => ret_update.r.val = arg.state
        /\ (ret_slope.done /\ ret_slope.r.ok) =>
              ret_slope.r.val = <<RNeg(RMul(X, G)), R(0)>>
        /\ (Running /\ system.init.X = R(0)) =>
              \A i \in 1..Len(frame) : frame[i].state = system.init

C5_Witness ==
    /\ ZeroRates
    /\ ret_update.done /\ ret_slope.done
    /\ ret_update.r.ok
    /\ arg.state.X # R(0)
    /\ interpolate(system.I, arg.t).val # system.Ib
    /\ ret_update.r.val # arg.state

\* C6 as stated: with the book's parameters, dt = 2, X = 0 initially and the
\* forcing at baseline, G is non-increasing along the trajectory, X stays 0
\* and G never drops below Gb.
C6_BaselineDecay ==
    BookRun =>
        \A i \in 1..Len(frame) :
            /\ frame[i].state.X = R(0)
            /\ RLeq(system.Gb, frame[i].state.G)
            /\ i < Len(frame) => RLeq(frame[i + 1].state.G, frame[i].state.G)

\* C6 as amended: the same, for a baseline glucose Gb <= G0.
C6_BaselineDecayFromAbove ==
    (BookRun /\ RLeq(system.Gb, system.G0)) =>
        \A i \in 1..Len(frame) :
            /\ frame[i].state.X = R(0)
            /\ RLeq(system.Gb, frame[i].state.G)
            /\ i < Len(frame) => RLeq(frame[i + 1].state.G, frame[i].state.G)

C6_Witness ==
    /\ BookRun
    /\ RLeq(system.Gb, system.G0)
    /\ pc = "done"
    /\ Len(frame) >= 4
    /\ frame[4].state.G # frame[3].state.G
    /\ RLeq(frame[4].state.G, frame[3].state.G)

\* C7: a run on a configuration with dt <= 0 or t_end <= t_0 ends in a
\* ConfigurationError: it returns no trajectory and applies no update step.
C7_ConfigurationError ==
    (system.dt <= 0 \/ system.t_end <= system.t_0) =>
        /\ pc # "done"
        /\ results = <<>>
        /\ calls = <<>>
        /\ pc = "error" => err = "ConfigurationError"

\* C8: update_func and slope_func called at a time outside the observed range
\* raise DomainError; in run_simulation that call is the last one, the run
\* ends in the error, no row is written for it and no trajectory is returned.
C8_DomainErrorPropagates ==
    /\ (ret_update.done /\ OutOfRange(arg.t)) =>
          (~ret_update.r.ok /\ ret_update.r.err = "DomainError")
    /\ (ret_slope.done /\ OutOfRange(arg.t)) =>
          (~ret_slope.r.ok /\ ret_slope.r.err = "DomainError")
    /\ \A i \in 1..Len(calls) :
          OutOfRange(calls[i]) =>
              /\ i = Len(calls)
              /\ pc = "error"
              /\ err = "DomainError"
              /\ Len(frame) = Len(calls)
              /\ ~HasRow(frame, calls[i] + system.dt)
              /\ results = <<>>

C8_Witness ==
    /\ pc = "error"
    /\ err = "DomainError"
    /\ Len(calls) >= 3
    /\ OutOfRange(calls[Len(calls)])
    /\ results = <<>>

\* C9: an iteration for time t reads the existing row t, appends exactly one
\* row, t+dt, that did not exist, and leaves the earlier rows and the system
\* as they were; the returned trajectory has one row more than the iterations.
C9_AppendOnly ==
    /\ [](pc = "done" => Len(frame) = Len(calls) + 1)
    /\ [][system' = system]_vars
    /\ [][(pc = "loop" /\ calls' # calls) =>
            LET t == calls'[Len(calls')]
            IN  /\ calls' = Append(calls, t)
                /\ HasRow(frame, t)
                /\ ~HasRow(frame, t + system.dt)
                /\ pc' = "loop" =>
                      /\ Len(frame') = Len(frame) + 1
                      /\ frame'[Len(frame')].t = t + system.dt
                      /\ \A i \in 1..Len(frame) : frame'[i] = frame[i]]_vars

C9_Witness ==
    /\ pc = "done"
    /\ Len(calls) >= 3
    /\ Len(frame) = Len(calls) + 1
    /\ frame[2].state # frame[1].state

\* C10: on a system built by make_system, with dt > 0, update_func is called
\* only at times in [t_0, t_end], where the forcing signal is defined, also
\* when the last recorded time lies beyond t_end.
C10_CallsWithinObservedRange ==
    (BuiltByMakeSystem /\ system.dt > 0) =>
        /\ \A i \in 1..Len(calls) :
              /\ system.t_0 <= calls[i]
              /\ calls[i] <= system.t_end
              /\ interpolate(system.I, calls[i]).ok
        /\ pc # "error"

C10_Witness ==
    /\ BuiltByMakeSystem
    /\ pc = "done"
    /\ Len(calls) >= 3
    /\ LastRow(frame).t > system.t_end

====
